---- MODULE Spec2Model ----
(***************************************************************************)
(* Stream Deck controller: device session, report decoding, edge          *)
(* detection, action registry and the UI composable.                      *)
(*                                                                         *)
(* Four specifications share the module:                                   *)
(*   SpecEdge      the pure functions (read_buttons' decoding, diff)       *)
(*   SpecRegistry  the action registry and the press dispatcher            *)
(*   Spec          the session: connect_device / disconnect_device, the    *)
(*                 polling threads with the action trigger, the device     *)
(*   SpecUI        the composable: its listener, the button-state events   *)
(*                 the polling threads emit, connect and disconnect        *)
(***************************************************************************)
EXTENDS Integers, Sequences, FiniteSets, TLC

VARIABLES
    \* ---- SpecEdge: one decode + diff computation
    profile,        \* the DeviceProfile in use
    raw_report,     \* the bytes the device read returned
    previous,       \* the ButtonState of the previous tick
    decoded,        \* what read_buttons made of raw_report
    events,         \* diff(previous, decoded.states)
    pcEdge,         \* "in" -> "decoded" -> "diffed"
    \* ---- SpecRegistry: the action registry and the dispatcher
    registry,       \* the registrations: a list of [key, handler]
    lastReg,        \* history: key -> the handler of its latest register call
    regCount,       \* history: key -> how many handlers it has had (capped at 2)
    lastDispatch,   \* the latest dispatch: its action key, button and result
    invocations,    \* history: the handlers invoked so far, in order
    nDispatch,      \* history: the number of dispatches and presses handled
    \* ---- Spec: the session, the polling threads, the device, the UI
    streamdeck,     \* AppState.streamdeck: Mutex<Option<StreamDeck>>
    lock,           \* who holds the mutex across steps: nobody, the command, a poller
    cmd,            \* the command the UI has in flight (or had last)
    pollers,        \* the polling threads spawned so far, in spawn order
    nOpened,        \* transport handles opened so far (handle ids 1..nOpened)
    openHandles,    \* the handles open now
    closes,         \* history: handle -> number of close calls on it
    held,           \* the buttons physically held on the device
    devices,        \* UI: devices.value (the paths listed)
    connectedDevice,\* UI: connectedDevice.value (a path or "null")
    edgeLog,        \* history: button -> the last two edges emitted for it
    owed,           \* history: button -> Pressed events emitted minus dispatches
    \* ---- SpecUI: the composable, its listener and the event channel
    buttonStates,   \* UI: buttonStates.value
    unlistenFn,     \* UI: unlistenFn ("null" or the function listen() gave)
    listenPc,       \* setupButtonListener: "idle" -> "pending" -> "resolved"
    listening,      \* the event system holds the composable's callback
    mounted,        \* the component: "created" -> "mounted" -> "unmounted"
    channel,        \* the "streamdeck://button-state" events emitted, not yet delivered
    nEmitted,       \* history: number of events emitted
    lastDelivered   \* history: the serial of the event the callback ran for last

edgeVars == <<profile, raw_report, previous, decoded, events, pcEdge>>
regVars == <<registry, lastReg, regCount, lastDispatch, invocations, nDispatch>>

sessVars == <<streamdeck, lock, cmd, pollers, nOpened, openHandles, closes,
              held, devices, connectedDevice, edgeLog, owed>>
uiVars == <<buttonStates, unlistenFn, listenPc, listening, mounted, channel,
            nEmitted, lastDelivered>>

vars == <<edgeVars, regVars, sessVars, uiVars>>

(***************************************************************************)
(* Program constants                                                       *)
(***************************************************************************)
\* const BUTTON_COUNT = 15 (the 5x3 grid)
BUTTON_COUNT == 15
\* let mut buf = [0u8; 512]
REPORT_BUF == 512
\* Stream Deck MK.2: button data starts at byte 4
OFFSET_MK2 == 4
\* Stream Deck Original: button data starts at byte 1
OFFSET_ORIGINAL == 1

(***************************************************************************)
(* Bounds of the model                                                     *)
(***************************************************************************)
\* buttons 0..MaxBtn-1 and the last button are the ones the inputs press
MaxBtn == 3
\* dispatches and presses one behaviour of SpecRegistry handles
MaxDispatch == 2
\* successful transport opens in one behaviour of Spec
MaxConnects == 2
\* the first MaxPollBtn buttons with a binding are pressed on the device in Spec
MaxPollBtn == 2
\* buttons 0..MaxUiBtn-1 are pressed on the device in SpecUI
MaxUiBtn == 1
\* reports the device queues for one handle
MaxQueue == 1
\* button-state events emitted in one behaviour of SpecUI
MaxEmits == 3
\* button-state events emitted and not yet delivered
MaxChannel == 2

Buttons == 0..(BUTTON_COUNT - 1)
TestButtons == (0..(MaxBtn - 1)) \cup {BUTTON_COUNT - 1}

\* ButtonState: [bool; BUTTON_COUNT], index 0..BUTTON_COUNT-1
StateOf(S) == [i \in Buttons |-> i \in S]
AllFalse == StateOf({})
HeldIn(bs) == {i \in DOMAIN bs : bs[i]}

\* The per-model profile table (button count, offset of the button block)
Profiles ==
    { [button_count |-> BUTTON_COUNT, offset |-> OFFSET_MK2],
      [button_count |-> BUTTON_COUNT, offset |-> OFFSET_ORIGINAL] }

\* A raw report of `len` bytes: byte 0 is the report id, the bytes of the
\* held buttons (at offset + i) carry v, every other byte is zero.
\* Sequences are 1-based: byte j of the report is element j + 1.
MkReport(len, rid, offset, S, v) ==
    [k \in 1..len |->
        IF k = 1 THEN rid
        ELSE IF (k - 1 - offset) \in S THEN v
        ELSE 0]

(***************************************************************************)
(* read_buttons: the decoding of one report                                *)
(***************************************************************************)
\* The 512-byte zeroed buffer after device.read(&mut buf) wrote the report
BufAfterRead(report) ==
    [j \in 0..(REPORT_BUF - 1) |->
        IF j < Len(report) THEN report[j + 1] ELSE 0]

\* faulty variant, for comparison: a button counts as held only when its byte is exactly 0x01
decode_eq1(p, report, button_states) ==
    IF Len(report) > 0
    THEN LET buf == BufAfterRead(report)
         IN  [ok |-> TRUE, error |-> "",
              states |-> [i \in Buttons |-> buf[p.offset + i] = 1],
              touched |-> {p.offset + i : i \in Buttons}]
    ELSE [ok |-> TRUE, error |-> "", states |-> button_states, touched |-> {}]

\* Ok(bytes_read) if bytes_read > 0 => button_states[i] = buf[offset + i] != 0
\* Ok(_) => {} (no data: button_states as they were).
\* `touched` is the set of buffer indices the loop reads.
decode(p, report, button_states) ==
    IF Len(report) > 0
    THEN LET buf == BufAfterRead(report)
         IN  [ok |-> TRUE, error |-> "",
              states |-> [i \in Buttons |-> buf[p.offset + i] # 0],
              touched |-> {p.offset + i : i \in Buttons}]
    ELSE [ok |-> TRUE, error |-> "", states |-> button_states, touched |-> {}]

\* match self.device.read(&mut buf): Err(e) => Err("Read error: ..."),
\* otherwise the decoding above and Ok(&self.button_states)
read_buttons(p, rd, button_states) ==
    IF rd.kind = "err"
    THEN [ok |-> FALSE, error |-> "Read error",
          states |-> button_states, touched |-> {}]
    ELSE decode(p, rd.bytes, button_states)

(***************************************************************************)
(* Edge detector                                                           *)
(***************************************************************************)
\* if current[i] && !prev_states[i]  (button just pressed, rising edge)
RisingEdge(prev, current, i) == current[i] /\ ~prev[i]

\* a previous state of another length reads as false
PrevAt(prev, i) == IF i \in DOMAIN prev THEN prev[i] ELSE FALSE

\* faulty variant, for comparison: the edge is taken from the previous state
diff_edge_of_previous(prev, current) ==
    LET RECURSIVE from(_)
        from(i) ==
            IF i >= BUTTON_COUNT THEN <<>>
            ELSE (IF PrevAt(prev, i) # current[i]
                  THEN <<[index |-> i,
                          edge |-> IF PrevAt(prev, i) THEN "Pressed" ELSE "Released"]>>
                  ELSE <<>>) \o from(i + 1)
    IN  from(0)

\* diff(previous, current): one event per changed index, ascending
diff(prev, current) ==
    LET RECURSIVE from(_)
        from(i) ==
            IF i >= BUTTON_COUNT THEN <<>>
            ELSE (IF PrevAt(prev, i) # current[i]
                  THEN <<[index |-> i,
                          edge |-> IF current[i] THEN "Pressed" ELSE "Released"]>>
                  ELSE <<>>) \o from(i + 1)
    IN  from(0)

\* Option::None of the managed state (no handle has id 0)
None == [handle |-> 0, path |-> "", button_states |-> AllFalse, inq |-> <<>>]
\* button 0 (volume up), button 5 (the example binding), ...
PollButtons == {5 * k : k \in 0..(MaxPollBtn - 1)}
UiButtons == 0..(MaxUiBtn - 1)
\* device paths that exist, and one that does not
DevicePaths == {"A", "B"}
Paths == DevicePaths \cup {"nonexistent-path"}
HandleIds == 1..MaxConnects

\* let offset = 4 (the profile read_buttons is written for)
PollProfile == [button_count |-> BUTTON_COUNT, offset |-> OFFSET_MK2]
\* Byte 0: report id, bytes 1-3: header, bytes 4-18: button states
FullReport(S) == MkReport(OFFSET_MK2 + BUTTON_COUNT, 1, OFFSET_MK2, S, 1)
\* a report cut short before the button block
GlitchReport == MkReport(3, 1, OFFSET_MK2, {}, 1)

\* the holders of state.streamdeck's mutex
Free == [holder |-> "none", id |-> 0]
ByCmd == [holder |-> "cmd", id |-> 0]
ByPoller(p) == [holder |-> "poller", id |-> p]

CmdIdle ==
    [op |-> "none", pc |-> "idle", path |-> "", handle |-> 0, result |-> "",
     wasConnected |-> FALSE, pollersAtCall |-> 0, cdAtCall |-> "null"]

SessInit ==
    /\ streamdeck = None
    /\ lock = Free
    /\ cmd = CmdIdle
    /\ pollers = <<>>
    /\ nOpened = 0
    /\ openHandles = {}
    /\ closes = [h \in HandleIds |-> 0]
    /\ held = {}
    /\ devices = {}
    /\ connectedDevice = "null"
    /\ edgeLog = [i \in PollButtons |-> <<>>]
    /\ owed = [i \in PollButtons |-> 0]

\* the session variables while another specification runs
SessIdle == SessInit

\* useStreamDeck(): the refs as constructed, nothing emitted yet
UiInit ==
    /\ buttonStates = AllFalse
    /\ unlistenFn = "null"
    /\ listenPc = "idle"
    /\ listening = FALSE
    /\ mounted = "created"
    /\ channel = <<>>
    /\ nEmitted = 0
    /\ lastDelivered = 0

\* the UI variables while another specification runs
UiIdle == UiInit

\* the edge variables while another specification runs
NoDecode == [ok |-> TRUE, error |-> "", states |-> AllFalse, touched |-> {}]

EdgeIdle ==
    /\ profile = [button_count |-> BUTTON_COUNT, offset |-> OFFSET_MK2]
    /\ raw_report = <<>>
    /\ previous = AllFalse
    /\ decoded = NoDecode
    /\ events = <<>>
    /\ pcEdge = "idle"

(***************************************************************************)
(* Action registry and dispatcher                                          *)
(***************************************************************************)
\* Action type keys: `none` is built in, the others are registrable
Keys == {"none", "audio.volume_up", "category.my_new_action"}
\* fn(&Action, &AppHandle) -> Result<(), String>
Handlers == {"volume_up", "my_new_action"}
NoHandler == "-"

\* Action::new(type)
Action(type) == [type |-> type, params |-> <<>>]

\* Config::default(): button 0 = volume up, button 5 = the README's example
ButtonBinding ==
    (0 :> Action("audio.volume_up")) @@ (5 :> Action("category.my_new_action"))

\* position of `key` in the registrations, 0 when absent
Position(reg, key) ==
    IF \E k \in 1..Len(reg) : reg[k].key = key
    THEN CHOOSE k \in 1..Len(reg) :
            /\ reg[k].key = key
            /\ \A j \in 1..(k - 1) : reg[j].key # key
    ELSE 0

\* faulty variant, for comparison: a second registration is added behind the first, which still wins
register_keep_first(reg, key, handler) ==
    Append(reg, [key |-> key, handler |-> handler])

\* register(type_key, handler): overwrites any existing handler for the key
register(reg, key, handler) ==
    IF Position(reg, key) # 0
    THEN [reg EXCEPT ![Position(reg, key)] = [key |-> key, handler |-> handler]]
    ELSE Append(reg, [key |-> key, handler |-> handler])

\* faulty variant, for comparison: an unknown key silently runs the first registered handler
dispatch_default(reg, action, outcome) ==
    LET k == Position(reg, action.type)
    IN  IF k = 0 /\ Len(reg) = 0
        THEN [kind |-> "NotFound", key |-> action.type, message |-> "",
              invoked |-> <<>>]
        ELSE [kind |-> IF outcome = "ok" THEN "Ok" ELSE "HandlerFailed",
              key |-> action.type,
              message |-> IF outcome = "ok" THEN "" ELSE outcome,
              invoked |-> <<reg[IF k = 0 THEN 1 ELSE k].handler>>]

\* dispatch(action, context): NotFound naming an unknown key, otherwise the
\* handler is invoked and its failure becomes HandlerFailed(key, message)
dispatch(reg, action, outcome) ==
    LET k == Position(reg, action.type)
    IN  IF k = 0
        THEN [kind |-> "NotFound", key |-> action.type, message |-> "",
              invoked |-> <<>>]
        ELSE [kind |-> IF outcome = "ok" THEN "Ok" ELSE "HandlerFailed",
              key |-> action.type,
              message |-> IF outcome = "ok" THEN "" ELSE outcome,
              invoked |-> <<reg[k].handler>>]

\* the built-in `none`: do nothing
NoOp == [kind |-> "Ok", key |-> "none", message |-> "", invoked |-> <<>>]

\* faulty variant, for comparison: a button without a binding runs the volume action
on_press_default_volume(reg, index, outcome) ==
    IF index \in DOMAIN ButtonBinding
    THEN dispatch(reg, ButtonBinding[index], outcome)
    ELSE dispatch(reg, Action("audio.volume_up"), outcome)

\* a press edge: the action bound to the button is dispatched; a button
\* without a binding does nothing
on_press(reg, index, outcome) ==
    IF index \in DOMAIN ButtonBinding
    THEN dispatch(reg, ButtonBinding[index], outcome)
    ELSE NoOp

NoDispatch == [button |-> -1, result |-> NoOp]

RegIdle ==
    /\ registry = <<>>
    /\ lastReg = [k \in Keys |-> NoHandler]
    /\ regCount = [k \in Keys |-> 0]
    /\ lastDispatch = NoDispatch
    /\ invocations = <<>>
    /\ nDispatch = 0

\* self.register(key, handler)
Register ==
    \E key \in Keys, h \in Handlers :
        /\ registry' = register(registry, key, h)
        /\ lastReg' = [lastReg EXCEPT ![key] = h]
        /\ regCount' = [regCount EXCEPT ![key] =
                            IF lastReg[key] = h THEN @
                            ELSE IF @ < 2 THEN @ + 1 ELSE @]
        /\ UNCHANGED <<lastDispatch, invocations, nDispatch>>
        /\ UNCHANGED <<edgeVars, sessVars, uiVars>>

\* registry.dispatch(&action, &app)
Dispatch ==
    \E key \in Keys, outcome \in {"ok", "failed"} :
        /\ nDispatch < MaxDispatch
        /\ LET r == dispatch(registry, Action(key), outcome)
           IN  /\ lastDispatch' = [button |-> -1, result |-> r]
               /\ invocations' = invocations \o r.invoked
        /\ nDispatch' = nDispatch + 1
        /\ UNCHANGED <<registry, lastReg, regCount>>
        /\ UNCHANGED <<edgeVars, sessVars, uiVars>>

\* the dispatcher on a Pressed edge of button `index`
Press ==
    \E index \in TestButtons \cup {5}, outcome \in {"ok", "failed"} :
        /\ nDispatch < MaxDispatch
        /\ LET r == on_press(registry, index, outcome)
           IN  /\ lastDispatch' = [button |-> index, result |-> r]
               /\ invocations' = invocations \o r.invoked
        /\ nDispatch' = nDispatch + 1
        /\ UNCHANGED <<registry, lastReg, regCount>>
        /\ UNCHANGED <<edgeVars, sessVars, uiVars>>

InitRegistry == EdgeIdle /\ RegIdle /\ SessIdle /\ UiIdle

NextRegistry == Register \/ Dispatch \/ Press

SpecRegistry == InitRegistry /\ [][NextRegistry]_vars

(***************************************************************************)
(* Claims about the registry (checked under SpecRegistry)                  *)
(***************************************************************************)
Dispatched == nDispatch' = nDispatch + 1

\* C5: dispatching an action whose key has no registered handler returns
\* NotFound naming that key, invokes no handler and has no side effect.
C5_UnknownKeyNotFound ==
    [][(Dispatched /\ lastDispatch'.button = -1
            /\ lastReg[lastDispatch'.result.key] = NoHandler) =>
        /\ lastDispatch'.result.kind = "NotFound"
        /\ lastDispatch'.result.invoked = <<>>
        /\ invocations' = invocations]_vars

\* C5 witness: audio.volume_up was dispatched with other keys registered
\* and came back NotFound
C5_Witness ==
    /\ lastDispatch.button = -1
    /\ lastDispatch.result.kind = "NotFound"
    /\ lastDispatch.result.key = "audio.volume_up"
    /\ lastReg["audio.volume_up"] = NoHandler
    /\ Len(registry) > 0

\* C6: after register(key, h1) and register(key, h2) a dispatch of the key
\* invokes h2 and never h1; the handlers of other keys are unaffected.
C6_LastRegistrationWins ==
    [][(Dispatched /\ lastDispatch'.button = -1
            /\ lastReg[lastDispatch'.result.key] # NoHandler) =>
        /\ lastDispatch'.result.invoked = <<lastReg[lastDispatch'.result.key]>>
        /\ invocations' = Append(invocations, lastReg[lastDispatch'.result.key])]_vars

\* C6 witness: a key registered with one handler and then with another was
\* dispatched and ran the second, while another key still holds the first
C6_Witness ==
    /\ lastDispatch.button = -1
    /\ regCount[lastDispatch.result.key] = 2
    /\ lastReg[lastDispatch.result.key] = "my_new_action"
    /\ lastDispatch.result.invoked = <<"my_new_action">>
    /\ \E k \in Keys : k # lastDispatch.result.key /\ lastReg[k] = "volume_up"

\* C9: a press of a button that has no binding resolves to the built-in
\* no-op: no error is returned and no handler is invoked.
C9_MissingBindingIsNoOp ==
    [][(Dispatched /\ lastDispatch'.button >= 0
            /\ lastDispatch'.button \notin DOMAIN ButtonBinding) =>
        /\ lastDispatch'.result.kind = "Ok"
        /\ lastDispatch'.result.invoked = <<>>
        /\ invocations' = invocations]_vars

\* C9 witness: an unbound button was pressed while handlers with side
\* effects were registered
C9_Witness ==
    /\ lastDispatch.button >= 0
    /\ lastDispatch.button \notin DOMAIN ButtonBinding
    /\ lastDispatch.result.kind = "Ok"
    /\ lastReg["audio.volume_up"] # NoHandler
    /\ lastReg["none"] # NoHandler

(***************************************************************************)
(* Session state: AppState, the transport, the UI composable               *)
(***************************************************************************)
\* StreamDeck::connect(path) succeeded: the transport handle, no button held
NewStreamDeck(handle, path) ==
    [handle |-> handle, path |-> path, button_states |-> AllFalse, inq |-> <<>>]

\* the transport's open: the path must exist and not be claimed already
CanOpen(path) ==
    /\ path \in DevicePaths
    /\ (streamdeck = None \/ streamdeck.path # path)

\* assigning to the Option drops the StreamDeck it held, which closes its
\* handle: the close calls after `old` is dropped
Dropped(old, cl) ==
    IF old = None THEN cl ELSE [cl EXCEPT ![old.handle] = @ + 1]

\* faulty variant, for comparison: the handle is closed but stays in the managed state
disconnect_device_keeps(sd) == sd

\* disconnect_device: the managed state holds no StreamDeck afterwards
disconnect_device(sd) == None

\* the session state the managed state and the running command stand for
SessionStateOf(sd, c) ==
    IF c.op = "connect" /\ c.pc = "opened" THEN "Connecting"
    ELSE IF c.op = "disconnect" /\ c.pc = "locked" /\ sd # None THEN "Disconnecting"
    ELSE IF sd # None THEN "Connected"
    ELSE "Disconnected"

SessionState == SessionStateOf(streamdeck, cmd)

NewCmd(op, path) ==
    [op |-> op, pc |-> "idle", path |-> path, handle |-> 0, result |-> "",
     wasConnected |-> streamdeck # None,
     pollersAtCall |-> Len(pollers), cdAtCall |-> connectedDevice]

\* connect(devicePath): invoke("connect_device") runs StreamDeck::connect,
\* which opens the transport before the lock is taken; `?` returns the error
ConnectOpen ==
    \E path \in Paths :
        /\ cmd.pc = "idle"
        /\ mounted # "unmounted"
        /\ \/ /\ CanOpen(path)
              /\ nOpened < MaxConnects
              /\ nOpened' = nOpened + 1
              /\ openHandles' = openHandles \cup {nOpened + 1}
              /\ cmd' = [NewCmd("connect", path) EXCEPT
                            !.pc = "opened", !.handle = nOpened + 1]
           \/ /\ cmd' = [NewCmd("connect", path) EXCEPT
                            !.pc = "returned", !.result = "TransportError"]
              /\ UNCHANGED <<nOpened, openHandles>>
        /\ UNCHANGED <<streamdeck, lock, pollers, closes, held, devices,
                       connectedDevice, edgeLog>>
        /\ UNCHANGED <<edgeVars, regVars, uiVars, owed>>

\* *state.streamdeck.lock().unwrap() = Some(streamdeck); then the polling
\* thread is spawned and Ok(()) returned
ConnectStore ==
    /\ cmd.op = "connect" /\ cmd.pc = "opened"
    /\ lock = Free
    /\ streamdeck' = NewStreamDeck(cmd.handle, cmd.path)
    /\ closes' = Dropped(streamdeck, closes)
    /\ openHandles' = IF streamdeck = None THEN openHandles
                      ELSE openHandles \ {streamdeck.handle}
    /\ pollers' = Append(pollers, [pc |-> "tick", prev_states |-> AllFalse,
                                   pending |-> <<>>])
    /\ cmd' = [cmd EXCEPT !.pc = "returned", !.result = "Ok"]
    /\ edgeLog' = [i \in PollButtons |-> <<>>]
    /\ UNCHANGED <<lock, nOpened, held, devices, connectedDevice>>
    /\ UNCHANGED <<edgeVars, regVars, uiVars, owed>>

\* connect(): after the await, devices.value.find(d => d.path === devicePath)
\* and connectedDevice.value = device when found; a rejection is thrown on
UIConnectResolve ==
    /\ cmd.op = "connect" /\ cmd.pc = "returned"
    /\ connectedDevice' =
            IF cmd.result = "Ok" /\ cmd.path \in devices
            THEN cmd.path ELSE connectedDevice
    /\ cmd' = CmdIdle
    /\ UNCHANGED <<streamdeck, lock, pollers, nOpened, openHandles, closes,
                   held, devices, edgeLog>>
    /\ UNCHANGED <<edgeVars, regVars, uiVars, owed>>

\* disconnect(): invoke("disconnect_device") takes the lock
DisconnectLock ==
    /\ cmd.pc = "idle"
    /\ mounted # "unmounted"
    /\ lock = Free
    /\ lock' = ByCmd
    /\ cmd' = [NewCmd("disconnect", "") EXCEPT !.pc = "locked"]
    /\ UNCHANGED <<streamdeck, pollers, nOpened, openHandles, closes, held,
                   devices, connectedDevice, edgeLog>>
    /\ UNCHANGED <<edgeVars, regVars, uiVars, owed>>

\* disconnect_device under the lock: the StreamDeck is dropped, Ok(())
DisconnectFinish ==
    /\ cmd.op = "disconnect" /\ cmd.pc = "locked"
    /\ streamdeck' = disconnect_device(streamdeck)
    /\ closes' = Dropped(streamdeck, closes)
    /\ openHandles' = IF streamdeck = None THEN openHandles
                      ELSE openHandles \ {streamdeck.handle}
    /\ lock' = Free
    /\ cmd' = [cmd EXCEPT !.pc = "returned", !.result = "Ok"]
    /\ edgeLog' = [i \in PollButtons |-> <<>>]
    /\ UNCHANGED <<pollers, nOpened, held, devices, connectedDevice>>
    /\ UNCHANGED <<edgeVars, regVars, uiVars, owed>>

\* disconnect(): after the await, connectedDevice.value = null and
\* buttonStates.value = new Array(15).fill(false)
UIDisconnectResolve ==
    /\ cmd.op = "disconnect" /\ cmd.pc = "returned"
    /\ connectedDevice' = "null"
    /\ buttonStates' = AllFalse
    /\ cmd' = CmdIdle
    /\ UNCHANGED <<streamdeck, lock, pollers, nOpened, openHandles, closes,
                   held, devices, edgeLog, owed>>
    /\ UNCHANGED <<unlistenFn, listenPc, listening, mounted, channel,
                   nEmitted, lastDelivered>>
    /\ UNCHANGED <<edgeVars, regVars>>

\* listDevices(): devices.value = await invoke("list_devices"), the
\* devices attached
UIListDevices ==
    \E found \in {DevicePaths} :
        /\ cmd.pc = "idle"
        /\ mounted # "unmounted"
        /\ devices' = found
        /\ UNCHANGED <<streamdeck, lock, cmd, pollers, nOpened, openHandles,
                       closes, held, connectedDevice, edgeLog>>
        /\ UNCHANGED <<edgeVars, regVars, uiVars, owed>>

(***************************************************************************)
(* The polling thread and the device                                       *)
(***************************************************************************)
\* what self.device.read(&mut buf) can return: a read error, the next
\* queued report, or no data
ReadOutcomes(sd) ==
    {[kind |-> "err", bytes |-> <<>>]}
        \cup {[kind |-> "data",
               bytes |-> IF sd.inq # <<>> THEN Head(sd.inq) ELSE <<>>]}

\* the buttons with a rising edge this tick, ascending
PressedNow(prev, current) ==
    SelectSeq([k \in 1..BUTTON_COUNT |-> k - 1],
              LAMBDA i : RisingEdge(prev, current, i))

\* history: the edges of `evs` appended per button, the last two kept
Logged(log, evs) ==
    [i \in DOMAIN log |->
        LET mine == SelectSeq(evs, LAMBDA e : e.index = i)
            all == log[i] \o [k \in 1..Len(mine) |-> mine[k].edge]
        IN  IF Len(all) <= 2 THEN all
            ELSE SubSeq(all, Len(all) - 1, Len(all))]

\* a polling thread whose loop has returned
Exited == [pc |-> "exited", prev_states |-> AllFalse, pending |-> <<>>]

\* prev_states = *current
track_previous(prev, current) == current

\* the number of Pressed events for button i among `evs`
PressedEvents(evs, i) ==
    Len(SelectSeq(evs, LAMBDA e : e.index = i /\ e.edge = "Pressed"))

\* the presses whose action is run: `?` returns at the first handler failure
Dispatched_of(reg, pending, outcome) ==
    LET fails == {k \in 1..Len(pending) :
                    on_press(reg, pending[k], outcome).kind = "HandlerFailed"}
    IN  IF fails = {} THEN pending
        ELSE SubSeq(pending, 1, CHOOSE k \in fails : \A j \in fails : k <= j)

\* one pass of the loop body: the lock is taken, read_buttons()?, the edges
\* against prev_states. `current` borrows from the locked StreamDeck until
\* prev_states = *current, so the lock is kept while the actions run.
PollTick(p) ==
    /\ pollers[p].pc = "tick"
    /\ lock = Free
    /\ streamdeck # None
    /\ \E rd \in ReadOutcomes(streamdeck) :
        LET r == read_buttons(PollProfile, rd, streamdeck.button_states)
            prev == pollers[p].prev_states
            current == r.states
            pressed == PressedNow(prev, current)
        IN  IF ~r.ok
            THEN /\ pollers' = [pollers EXCEPT ![p] = Exited]
                 /\ UNCHANGED <<streamdeck, lock, edgeLog, owed>>
            ELSE /\ streamdeck' = [streamdeck EXCEPT
                        !.button_states = current,
                        !.inq = IF @ # <<>> THEN Tail(@) ELSE @]
                 /\ pollers' = [pollers EXCEPT ![p] =
                        [pc |-> IF pressed # <<>> THEN "dispatch" ELSE "tick",
                         prev_states |-> IF pressed # <<>> THEN prev
                                         ELSE track_previous(prev, current),
                         pending |-> pressed]]
                 /\ lock' = IF pressed # <<>> THEN ByPoller(p) ELSE Free
                 /\ edgeLog' = Logged(edgeLog, diff(prev, current))
                 /\ owed' = [i \in PollButtons |->
                                owed[i] + PressedEvents(diff(prev, current), i)]
    /\ UNCHANGED <<cmd, nOpened, openHandles, closes, held, devices,
                   connectedDevice>>
    /\ UNCHANGED <<edgeVars, regVars, uiVars>>

\* the action of every button just pressed is run; a handler's Err leaves
\* the loop through `?`; otherwise prev_states = *current and the lock is
\* given back
PollDispatch(p) ==
    /\ pollers[p].pc = "dispatch"
    /\ \E outcome \in {"ok", "failed"} :
        LET called == Dispatched_of(registry, pollers[p].pending, outcome)
            failed == \E k \in 1..Len(called) :
                on_press(registry, called[k], outcome).kind = "HandlerFailed"
        IN  /\ pollers' = [pollers EXCEPT ![p] =
                    IF failed THEN Exited
                    ELSE [pc |-> "tick",
                          prev_states |-> track_previous(@.prev_states,
                                                streamdeck.button_states),
                          pending |-> <<>>]]
            /\ owed' = [i \in PollButtons |->
                            owed[i] - Len(SelectSeq(called, LAMBDA j : j = i))]
    /\ lock' = Free
    /\ UNCHANGED <<streamdeck, cmd, nOpened, openHandles, closes, held,
                   devices, connectedDevice, edgeLog>>
    /\ UNCHANGED <<edgeVars, regVars, uiVars>>

\* a button goes down or up; the device of the open handle reports it
Toggle(bs) ==
    \E i \in bs :
        LET now == IF i \in held THEN held \ {i} ELSE held \cup {i}
        IN  /\ held' = now
            /\ IF streamdeck = None
               THEN UNCHANGED streamdeck
               ELSE /\ Len(streamdeck.inq) < MaxQueue
                    /\ streamdeck' = [streamdeck EXCEPT
                            !.inq = Append(@, FullReport(now))]
    /\ UNCHANGED <<lock, cmd, pollers, nOpened, openHandles, closes, devices,
                   connectedDevice, edgeLog>>
    /\ UNCHANGED <<edgeVars, regVars, uiVars, owed>>

\* the device delivers a report cut short
Glitch ==
    /\ streamdeck # None
    /\ Len(streamdeck.inq) < MaxQueue
    /\ streamdeck' = [streamdeck EXCEPT !.inq = Append(@, GlitchReport)]
    /\ UNCHANGED <<lock, cmd, pollers, nOpened, openHandles, closes, held,
                   devices, connectedDevice, edgeLog>>
    /\ UNCHANGED <<edgeVars, regVars, uiVars, owed>>

\* register_defaults(): the built-in registrations
register_defaults(reg) ==
    register(register(reg, "audio.volume_up", "volume_up"),
             "category.my_new_action", "my_new_action")

Init ==
    /\ EdgeIdle
    /\ registry = register_defaults(<<>>)
    /\ lastReg = [k \in Keys |->
                    IF k = "audio.volume_up" THEN "volume_up"
                    ELSE IF k = "category.my_new_action" THEN "my_new_action"
                    ELSE NoHandler]
    /\ regCount = [k \in Keys |-> IF k = "none" THEN 0 ELSE 1]
    /\ lastDispatch = NoDispatch
    /\ invocations = <<>>
    /\ nDispatch = 0
    /\ SessInit
    /\ UiIdle

Next ==
    \/ ConnectOpen
    \/ ConnectStore
    \/ UIConnectResolve
    \/ DisconnectLock
    \/ DisconnectFinish
    \/ UIDisconnectResolve
    \/ UIListDevices
    \/ \E p \in 1..Len(pollers) : PollTick(p)
    \/ \E p \in 1..Len(pollers) : PollDispatch(p)
    \/ Toggle(PollButtons)
    \/ Glitch

Spec == Init /\ [][Next]_vars

(***************************************************************************)
(* Claims about the session (checked under Spec)                           *)
(***************************************************************************)
\* C2 (as claimed): on a connected session the events emitted for a button
\* strictly alternate Pressed, Released, Pressed, ...: a hold gives one
\* Pressed event in total, never a second one before the Released.
C2_EdgesAlternate ==
    \A i \in PollButtons :
        Len(edgeLog[i]) = 2 => edgeLog[i][1] # edgeLog[i][2]

\* C7: a disconnect on a session that is already Disconnected succeeds,
\* leaves it Disconnected and closes nothing; no handle is ever closed
\* twice, and only opened handles are closed.
C7_DisconnectIdempotent ==
    [][/\ \A h \in HandleIds : closes'[h] <= 1 /\ (closes'[h] = 1 => h <= nOpened')
       /\ (cmd.op = "disconnect" /\ cmd.pc = "locked" /\ cmd'.pc = "returned"
                /\ streamdeck = None) =>
            /\ cmd'.result = "Ok"
            /\ streamdeck' = None
            /\ SessionStateOf(streamdeck', cmd') = "Disconnected"
            /\ closes' = closes
            /\ openHandles' = openHandles]_vars

\* C7 witness: a disconnect has returned on a session that was already
\* Disconnected after an earlier disconnect had closed a handle
C7_Witness ==
    /\ cmd.op = "disconnect" /\ cmd.pc = "returned"
    /\ ~cmd.wasConnected
    /\ \E h \in HandleIds : closes[h] = 1

\* C8 (as claimed): once a connect whose open failed has been rejected,
\* the session is Disconnected, no transport handle is held, no poller was
\* started and connectedDevice is what it was before the call.
C8_FailedConnectLeavesDisconnected ==
    [][(cmd.op = "connect" /\ cmd.pc = "returned"
            /\ cmd.result = "TransportError" /\ cmd'.pc = "idle") =>
        /\ SessionState' = "Disconnected"
        /\ openHandles' = {}
        /\ Len(pollers') = cmd.pollersAtCall
        /\ connectedDevice' = cmd.cdAtCall]_vars

SessionStates == {"Disconnected", "Connecting", "Connected", "Disconnecting"}

SessionEdges ==
    { <<"Disconnected", "Connecting">>, <<"Connecting", "Connected">>,
      <<"Connecting", "Disconnected">>, <<"Connected", "Disconnecting">>,
      <<"Disconnecting", "Disconnected">>, <<"Connected", "Disconnected">> }

\* C10 (as claimed): the session is in one of the four states and every
\* change of state follows one of the six edges.
C10_SessionEdges ==
    [][/\ SessionState' \in SessionStates
       /\ SessionState' # SessionState =>
            <<SessionState, SessionState'>> \in SessionEdges]_vars

\* C11 (as claimed): at every instant at most one transport handle is open
\* for the session: a connect never has its new handle open alongside the
\* handle opened before.
C11_AtMostOneHandle == Cardinality(openHandles) <= 1

\* C12 (as claimed): no action handler runs while the poller that runs it
\* holds the session lock.
C12_NoHandlerUnderLock ==
    \A p \in 1..Len(pollers) : pollers[p].pc = "dispatch" => lock # ByPoller(p)

\* C13 (as claimed): only the poll loop of the latest connection reads,
\* emits or dispatches: a loop spawned by an earlier connect takes no step
\* once a later connection has its own poller.
C13_NoOrphanPoller ==
    [][\A p \in 1..Len(pollers) :
            pollers'[p] # pollers[p] => p = Len(pollers)]_vars

\* C14 (as claimed): when a read of the poll loop fails while the session
\* is Connected, the loop stops and the session becomes Disconnected.
C14_ReadErrorDisconnects ==
    [][\A p \in 1..Len(pollers) :
            (SessionState = "Connected" /\ pollers[p].pc = "tick"
                /\ pollers'[p].pc = "exited") =>
                    /\ SessionState' = "Disconnected"
                    /\ streamdeck' = None]_vars

\* C15 (as claimed): a handler failure does not affect the poll loop: the
\* loop that dispatched is still running afterwards and the session is
\* still Connected.
C15_HandlerFailureContained ==
    [][\A p \in 1..Len(pollers) :
            pollers[p].pc = "dispatch" =>
                /\ pollers'[p].pc # "exited"
                /\ SessionState' = "Connected"]_vars

\* the next report to be read is shorter than offset + button_count
ShortHead(sd) ==
    /\ sd # None
    /\ sd.inq # <<>>
    /\ Len(Head(sd.inq)) > 0
    /\ Len(Head(sd.inq)) < PollProfile.offset + PollProfile.button_count

\* C16 (as claimed): a tick that reads a report too short to decode is a
\* no-op tick: the button states and every prev_states are unchanged, no
\* event is emitted, nothing is dispatched and the loops keep polling.
C16_DecodeErrorSkipsTick ==
    [][(/\ ShortHead(streamdeck)
        /\ streamdeck' # None
        /\ streamdeck'.handle = streamdeck.handle
        /\ streamdeck'.inq = Tail(streamdeck.inq)) =>
            /\ streamdeck'.button_states = streamdeck.button_states
            /\ pollers' = pollers
            /\ edgeLog' = edgeLog
            /\ owed' = owed]_vars

\* the poll loops about to run the action of button i
Dispatching(i) ==
    {p \in 1..Len(pollers) :
        \E k \in 1..Len(pollers[p].pending) : pollers[p].pending[k] = i}

C21_ConnectedDeviceIsRequested ==
    [][/\ (cmd.op = "connect" /\ cmd.pc = "returned" /\ cmd.result = "Ok"
                /\ cmd'.pc = "idle") =>
            connectedDevice' = cmd.path
       /\ (cmd'.pc = "idle" /\ connectedDevice' # "null") =>
            /\ streamdeck' # None
            /\ streamdeck'.path = connectedDevice']_vars

(***************************************************************************)
(* SpecUI: the composable with its listener, the event channel, and the    *)
(* polling loop that emits the button states (the loop as first added to   *)
(* connect_device, before the action trigger)                              *)
(***************************************************************************)
\* faulty variant, for comparison: the newest event overtakes the ones waiting
emit_front(ch, ev) == <<ev>> \o ch

\* app_handle.emit("streamdeck://button-state", { buttons }): the event
\* joins the events waiting for the webview, behind them
emit(ch, ev) == Append(ch, ev)

\* one pass of the loop: get the lock, read the buttons, emit the event,
\* release the lock
PollEmit(p) ==
    /\ pollers[p].pc = "tick"
    /\ lock = Free
    /\ streamdeck # None
    /\ \E rd \in ReadOutcomes(streamdeck) :
        LET r == read_buttons(PollProfile, rd, streamdeck.button_states)
        IN  IF ~r.ok
            THEN /\ pollers' = [pollers EXCEPT ![p] = Exited]
                 /\ UNCHANGED <<streamdeck, channel, nEmitted>>
            ELSE /\ nEmitted < MaxEmits
                 /\ Len(channel) < MaxChannel
                 /\ streamdeck' = [streamdeck EXCEPT
                        !.button_states = r.states,
                        !.inq = IF @ # <<>> THEN Tail(@) ELSE @]
                 /\ channel' = emit(channel, [tick |-> nEmitted + 1,
                                              buttons |-> r.states])
                 /\ nEmitted' = nEmitted + 1
                 /\ UNCHANGED pollers
    /\ UNCHANGED <<lock, cmd, nOpened, openHandles, closes, held, devices,
                   connectedDevice, edgeLog, owed>>
    /\ UNCHANGED <<buttonStates, unlistenFn, listenPc, listening, mounted,
                   lastDelivered>>
    /\ UNCHANGED <<edgeVars, regVars>>

\* onMounted: setupButtonListener() is called and awaits listen()
Mount ==
    /\ mounted = "created"
    /\ mounted' = "mounted"
    /\ listenPc' = "pending"
    /\ UNCHANGED <<buttonStates, unlistenFn, listening, channel, nEmitted,
                   lastDelivered>>
    /\ UNCHANGED <<edgeVars, regVars, sessVars>>

\* unlistenFn = await listen(...): the callback is registered and the
\* function that removes it is stored
ListenResolve ==
    /\ listenPc = "pending"
    /\ listenPc' = "resolved"
    /\ listening' = TRUE
    /\ unlistenFn' = "fn"
    /\ UNCHANGED <<buttonStates, mounted, channel, nEmitted, lastDelivered>>
    /\ UNCHANGED <<edgeVars, regVars, sessVars>>

\* onUnmounted: cleanupButtonListener(): if (unlistenFn) { unlistenFn();
\* unlistenFn = null }
Unmount ==
    /\ mounted = "mounted"
    /\ mounted' = "unmounted"
    /\ IF unlistenFn # "null"
       THEN listening' = FALSE /\ unlistenFn' = "null"
       ELSE UNCHANGED <<listening, unlistenFn>>
    /\ UNCHANGED <<buttonStates, listenPc, channel, nEmitted, lastDelivered>>
    /\ UNCHANGED <<edgeVars, regVars, sessVars>>

\* the webview takes the oldest event waiting; the registered callback
\* runs: buttonStates.value = event.payload.buttons
Deliver ==
    /\ channel # <<>>
    /\ channel' = Tail(channel)
    /\ IF listening
       THEN /\ buttonStates' = Head(channel).buttons
            /\ lastDelivered' = Head(channel).tick
       ELSE UNCHANGED <<buttonStates, lastDelivered>>
    /\ UNCHANGED <<unlistenFn, listenPc, listening, mounted, nEmitted>>
    /\ UNCHANGED <<edgeVars, regVars, sessVars>>

InitUI == EdgeIdle /\ RegIdle /\ SessInit /\ UiInit

NextUI ==
    \/ Mount
    \/ ListenResolve
    \/ Unmount
    \/ Deliver
    \/ ConnectOpen
    \/ ConnectStore
    \/ UIConnectResolve
    \/ DisconnectLock
    \/ DisconnectFinish
    \/ UIDisconnectResolve
    \/ UIListDevices
    \/ Toggle(UiButtons)
    \/ \E p \in 1..Len(pollers) : PollEmit(p)

SpecUI == InitUI /\ [][NextUI]_vars

C19_NullDeviceAllReleased ==
    connectedDevice = "null" => buttonStates = AllFalse

\* C20 (as claimed): once cleanupButtonListener() has run on unmount, the
\* callback of setupButtonListener() is no longer registered.
C20_NoListenerAfterCleanup ==
    mounted = "unmounted" => ~listening

(***************************************************************************)
(* SpecEdge: inputs drawn in Init, then decode, then diff                  *)
(***************************************************************************)
ReportLens(p) ==
    {0, 3, p.offset + 1, p.offset + p.button_count - 1,
     p.offset + p.button_count, REPORT_BUF}

InitEdge ==
    /\ RegIdle
    /\ SessIdle
    /\ UiIdle
    /\ profile \in Profiles
    /\ previous \in {StateOf(S) : S \in SUBSET TestButtons}
    /\ \E len \in ReportLens(profile), rid \in {0, 1},
          S \in SUBSET TestButtons, v \in {1, 255} :
            raw_report = MkReport(len, rid, profile.offset, S, v)
    /\ decoded = NoDecode
    /\ events = <<>>
    /\ pcEdge = "in"

Decode ==
    /\ pcEdge = "in"
    /\ decoded' = decode(profile, raw_report, previous)
    /\ pcEdge' = "decoded"
    /\ UNCHANGED <<profile, raw_report, previous, events>>
    /\ UNCHANGED <<regVars, sessVars, uiVars>>

Diff ==
    /\ pcEdge = "decoded"
    /\ decoded.ok
    /\ events' = diff(previous, decoded.states)
    /\ pcEdge' = "diffed"
    /\ UNCHANGED <<profile, raw_report, previous, decoded>>
    /\ UNCHANGED <<regVars, sessVars, uiVars>>

NextEdge == Decode \/ Diff

SpecEdge == InitEdge /\ [][NextEdge]_vars

(***************************************************************************)
(* Claims about the pure functions (checked under SpecEdge)                *)
(***************************************************************************)
\* C1: diff(A, B) holds one event for exactly the indices where A and B
\* differ, each index once, in ascending order, Pressed when B[i] is true
\* and Released otherwise.
C1_DiffExact ==
    pcEdge = "diffed" =>
        LET current == decoded.states
            n == Len(events)
        IN  /\ {events[k].index : k \in 1..n}
                    = {i \in Buttons : previous[i] # current[i]}
            /\ \A k, l \in 1..n : k < l => events[k].index < events[l].index
            /\ \A k \in 1..n :
                    events[k].edge =
                        IF current[events[k].index] THEN "Pressed" ELSE "Released"

\* C1 witness: a diff with several events, presses and releases among them
C1_Witness ==
    /\ pcEdge = "diffed"
    /\ Len(events) >= 3
    /\ \E k, l \in 1..Len(events) :
            events[k].edge = "Pressed" /\ events[l].edge = "Released"

ShortReport ==
    /\ Len(raw_report) > 0
    /\ Len(raw_report) < profile.offset + profile.button_count

\* C3 (as claimed): a report shorter than offset + button_count decodes to
\* a DecodeError and no byte index outside the report is read.
C3_ShortReportIsDecodeError ==
    (pcEdge # "in" /\ ShortReport) =>
        /\ ~decoded.ok
        /\ decoded.error = "DecodeError"
        /\ decoded.touched \subseteq 0..(Len(raw_report) - 1)

\* the reports of the two scenarios: 512 zero bytes, byte 4 = 0x01 or 0x00
ScenarioPressed == MkReport(REPORT_BUF, 0, OFFSET_MK2, {0}, 1)
ScenarioReleased == MkReport(REPORT_BUF, 0, OFFSET_MK2, {}, 1)

====
